---- MODULE Spec2Model ----
(***************************************************************************)
(* epics.Device (lib/device.py): a collection of PVs sharing a name        *)
(* prefix.  The Device keeps a dictionary _pvs from full PV name to the    *)
(* epics.PV object built for it; PV(attr) is a get-or-create on that       *)
(* dictionary, put and get forward to the PV object it returns.            *)
(*                                                                         *)
(* The external library (epics.PV and the PV objects' get and put) is the  *)
(* environment: every call of it is recorded, and its outcome (a new       *)
(* object, a returned value, a raised exception) is chosen by the          *)
(* environment.                                                            *)
(***************************************************************************)
EXTENDS Integers, Sequences, FiniteSets, TLC

\* ---------------------------------------------------------------- bounds
MaxCalls   == 3      \* PV/get/put calls made on the Device in one run
MaxPreload == 2      \* longest attrs list given to the constructor
MaxMTCalls == 2      \* calls started by the threads of the concurrent run

\* ------------------------------------------------------ Python's values
\* An optional value: None is the empty tuple, a present x is <<x>>.
None == <<>>
Some(x) == <<x>>

\* A keyword argument the caller may omit: its default applies.
Default(arg, dflt) == IF arg = None THEN dflt ELSE arg[1]

\* put(..., timeout=10.0)
DefaultTimeout == 10

\* ---------------------------------------------------------------- inputs
Prefixes == { None, Some(""), Some("13IDC:str:") }
Attrs    == { "EraseStart", "mca1" }
Values   == { 1, 2 }
WaitArgs == { None, Some(TRUE), Some(FALSE) }
TimeoutArgs == { None, Some(5) }
AsStringArgs == { None, Some(TRUE), Some(FALSE) }

\* what the library can answer
Errors  == { "ChannelAccessException", "TimeoutError" }
Results == { "r1", "r2" }
Returned(v) == [kind |-> "ok", val |-> v]
Raised(e)   == [kind |-> "raise", val |-> e]
FactoryOutcomes == { Returned("PV") } \cup { Raised(e) : e \in Errors }
IoOutcomes      == { Returned(v) : v \in Results } \cup { Raised(e) : e \in Errors }

\* attrs of the constructor: absent, or a list (duplicates allowed)
RECURSIVE SeqsUpTo(_, _)
SeqsUpTo(S, n) ==
    IF n = 0 THEN { <<>> }
    ELSE LET shorter == SeqsUpTo(S, n - 1)
         IN  shorter \cup { Append(s, x) : s \in { q \in shorter : Len(q) = n - 1 }, x \in S }
AttrLists == { None } \cup { Some(l) : l \in SeqsUpTo(Attrs, MaxPreload) }

VARIABLES
    phase,        \* "new": no Device yet; "ready": __init__ returned; "failed": __init__ raised
    __prefix__,   \* self.__prefix__
    _pvs,         \* self._pvs: full PV name -> handle
    factoryLog,   \* the calls of epics.PV so far: [name, ok, h, err]
    nIo,          \* number of get/put calls made on PV objects so far
    lastIo,       \* those the last Device call made, in order: << [h, op, args, out], ... >>
    call,         \* the last call made on the Device and what its caller got
    nCalls,       \* number of PV/get/put calls made on the Device
    pc,           \* concurrent run: each thread's position in PV/get/put
    frame         \* concurrent run: each thread's arguments and locals

vars == << phase, __prefix__, _pvs, factoryLog, nIo, lastIo, call, nCalls, pc, frame >>

\* ------------------------------------------------------------- the code
\* mutant: the two parts joined with a separator, "%s:%s"
Format2Separated(a, b) == a \o ":" \o b

\* "%s%s" % (a, b) on two strings
Format2(a, b) == a \o b

\* mutant: the attribute first, "%s%s" % (attr, prefix)
FullNameSwapped(pfx, attr) ==
    IF pfx # None THEN attr \o pfx[1] ELSE attr

\* lines 58-60: the full PV name of an attribute
FullName(pfx, attr) ==
    IF pfx # None THEN Format2(pfx[1], attr) ELSE attr

\* epics.PV(pvname) builds a new object at every call: the n-th object's identity is n
NewHandle(flog) == 1 + Cardinality({ i \in 1..Len(flog) : flog[i].ok })

\* mutant: the dictionary rebuilt with the one entry, self._pvs = {pvname: h}
SetItemAlone(pvs, pvname, h) == [ n \in { pvname } |-> h ]

\* self._pvs[pvname] = h
SetItem(pvs, pvname, h) ==
    [ n \in (DOMAIN pvs) \cup { pvname } |-> IF n = pvname THEN h ELSE pvs[n] ]

FactoryCall(pvname, h)   == [name |-> pvname, ok |-> TRUE,  h |-> h, err |-> ""]
FactoryRaise(pvname, e)  == [name |-> pvname, ok |-> FALSE, h |-> 0, err |-> e]

\* mutant: no membership test, a new object at every call
PVAlwaysCreates(pvs, flog, pfx, attr, fout) ==
    LET pvname == IF pfx # None THEN pfx[1] \o attr ELSE attr IN
    IF fout.kind = "ok"
    THEN LET h == 1 + Cardinality({ i \in 1..Len(flog) : flog[i].ok }) IN
         [ pvs  |-> [ n \in (DOMAIN pvs) \cup { pvname } |-> IF n = pvname THEN h ELSE pvs[n] ],
           flog |-> Append(flog, [name |-> pvname, ok |-> TRUE, h |-> h, err |-> ""]),
           ok |-> TRUE, h |-> h, err |-> "" ]
    ELSE [ pvs  |-> pvs,
           flog |-> Append(flog, [name |-> pvname, ok |-> FALSE, h |-> 0, err |-> fout.val]),
           ok |-> FALSE, h |-> 0, err |-> fout.val ]

\* mutant: a failed creation leaves a placeholder under the name
PVCachesFailure(pvs, flog, pfx, attr, fout) ==
    LET pvname == IF pfx # None THEN pfx[1] \o attr ELSE attr IN
    IF pvname \notin DOMAIN pvs
    THEN IF fout.kind = "ok"
         THEN LET h == 1 + Cardinality({ i \in 1..Len(flog) : flog[i].ok }) IN
              [ pvs  |-> [ n \in (DOMAIN pvs) \cup { pvname } |-> IF n = pvname THEN h ELSE pvs[n] ],
                flog |-> Append(flog, [name |-> pvname, ok |-> TRUE, h |-> h, err |-> ""]),
                ok |-> TRUE, h |-> h, err |-> "" ]
         ELSE [ pvs  |-> [ n \in (DOMAIN pvs) \cup { pvname } |-> IF n = pvname THEN 0 ELSE pvs[n] ],
                flog |-> Append(flog, [name |-> pvname, ok |-> FALSE, h |-> 0, err |-> fout.val]),
                ok |-> FALSE, h |-> 0, err |-> fout.val ]
    ELSE [ pvs |-> pvs, flog |-> flog, ok |-> TRUE, h |-> pvs[pvname], err |-> "" ]

\* Device.PV run alone (lines 56-63).  fout is what epics.PV does if it is called.
\* The result: the dictionary and the factory's log after the call, and either
\* the handle returned (ok) or the exception that left the method (err).
PV(pvs, flog, pfx, attr, fout) ==
    LET pvname == FullName(pfx, attr) IN
    IF pvname \notin DOMAIN pvs
    THEN IF fout.kind = "ok"
         THEN LET h == NewHandle(flog) IN
              [ pvs  |-> SetItem(pvs, pvname, h),
                flog |-> Append(flog, FactoryCall(pvname, h)),
                ok |-> TRUE, h |-> SetItem(pvs, pvname, h)[pvname], err |-> "" ]
         ELSE [ pvs  |-> pvs,
                flog |-> Append(flog, FactoryRaise(pvname, fout.val)),
                ok |-> FALSE, h |-> 0, err |-> fout.val ]
    ELSE [ pvs |-> pvs, flog |-> flog, ok |-> TRUE, h |-> pvs[pvname], err |-> "" ]

\* Device.__init__ (lines 50-54): the loop "for p in attrs: self.PV(p)" from
\* position i on; fouts[i] is what epics.PV does if the i-th iteration calls it.
\* An exception leaves the loop and the constructor.
RECURSIVE Preload(_, _, _, _, _, _)
Preload(pvs, flog, pfx, attrs, fouts, i) ==
    IF i > Len(attrs)
    THEN [ pvs |-> pvs, flog |-> flog, ok |-> TRUE, err |-> "" ]
    ELSE LET r == PV(pvs, flog, pfx, attrs[i], fouts[i]) IN
         IF r.ok
         THEN Preload(r.pvs, r.flog, pfx, attrs, fouts, i + 1)
         ELSE [ pvs |-> r.pvs, flog |-> r.flog, ok |-> FALSE, err |-> r.err ]

\* mutant: attrs is stored nowhere and nothing is preloaded
InitNoPreload(pfx, attrs, fouts) ==
    [ pvs |-> <<>>, flog |-> <<>>, ok |-> TRUE, err |-> "" ]

__init__(pfx, attrs, fouts) ==
    IF attrs # None
    THEN Preload(<<>>, <<>>, pfx, attrs[1], fouts, 1)
    ELSE [ pvs |-> <<>>, flog |-> <<>>, ok |-> TRUE, err |-> "" ]

\* mutant: timeout is not forwarded, self.PV(attr).put(value, wait=wait)
PutDropsTimeout(pvs, flog, pfx, attr, value, waitArg, timeoutArg, fout, iout) ==
    LET r == PV(pvs, flog, pfx, attr, fout) IN
    IF r.ok
    THEN [ pvs |-> r.pvs, flog |-> r.flog, h |-> r.h,
           io  |-> <<[ h |-> r.h, op |-> "put",
                       args |-> [ value   |-> value,
                                  wait    |-> Default(waitArg, FALSE),
                                  timeout |-> DefaultTimeout ],
                       out |-> iout ]>>,
           ret |-> iout ]
    ELSE [ pvs |-> r.pvs, flog |-> r.flog, h |-> 0, io |-> <<>>, ret |-> Raised(r.err) ]

\* Device.put (lines 65-69): self.PV(attr).put(value, wait=wait, timeout=timeout)
\* iout is what the PV object's put does if it is called.  The result: the
\* dictionary and the factory's log after the call, the calls made on PV
\* objects (io, in order) and what the caller gets (ret).
put(pvs, flog, pfx, attr, value, waitArg, timeoutArg, fout, iout) ==
    LET r == PV(pvs, flog, pfx, attr, fout) IN
    IF r.ok
    THEN [ pvs |-> r.pvs, flog |-> r.flog, h |-> r.h,
           io  |-> <<[ h |-> r.h, op |-> "put",
                          args |-> [ value   |-> value,
                                     wait    |-> Default(waitArg, FALSE),
                                     timeout |-> Default(timeoutArg, DefaultTimeout) ],
                          out |-> iout ]>>,
           ret |-> iout ]
    ELSE [ pvs |-> r.pvs, flog |-> r.flog, h |-> 0, io |-> <<>>, ret |-> Raised(r.err) ]

\* mutant: as_string is not forwarded, self.PV(attr).get()
GetDropsAsString(pvs, flog, pfx, attr, asStringArg, fout, iout) ==
    LET r == PV(pvs, flog, pfx, attr, fout) IN
    IF r.ok
    THEN [ pvs |-> r.pvs, flog |-> r.flog, h |-> r.h,
           io  |-> <<[ h |-> r.h, op |-> "get", args |-> [ as_string |-> FALSE ], out |-> iout ]>>,
           ret |-> iout ]
    ELSE [ pvs |-> r.pvs, flog |-> r.flog, h |-> 0, io |-> <<>>, ret |-> Raised(r.err) ]

\* mutant: a read that raises is tried a second time
GetRetries(pvs, flog, pfx, attr, asStringArg, fout, iout) ==
    LET r == PV(pvs, flog, pfx, attr, fout)
        rd == [ h |-> r.h, op |-> "get",
                args |-> [ as_string |-> Default(asStringArg, FALSE) ], out |-> iout ]
    IN
    IF r.ok
    THEN [ pvs |-> r.pvs, flog |-> r.flog, h |-> r.h,
           io  |-> IF iout.kind = "raise" THEN << rd, rd >> ELSE << rd >>,
           ret |-> iout ]
    ELSE [ pvs |-> r.pvs, flog |-> r.flog, h |-> 0, io |-> <<>>, ret |-> Raised(r.err) ]

\* Device.get (lines 71-74): self.PV(attr).get(as_string=as_string)
get(pvs, flog, pfx, attr, asStringArg, fout, iout) ==
    LET r == PV(pvs, flog, pfx, attr, fout) IN
    IF r.ok
    THEN [ pvs |-> r.pvs, flog |-> r.flog, h |-> r.h,
           io  |-> <<[ h |-> r.h, op |-> "get",
                          args |-> [ as_string |-> Default(asStringArg, FALSE) ],
                          out |-> iout ]>>,
           ret |-> iout ]
    ELSE [ pvs |-> r.pvs, flog |-> r.flog, h |-> 0, io |-> <<>>, ret |-> Raised(r.err) ]

\* ------------------------------------------------- the single-threaded run
NoCall == [ op |-> "none", attr |-> "", args |-> <<>>, h |-> 0, ret |-> Returned("") ]
IdleFrame == [ op |-> "none", attr |-> "", args |-> <<>>, pvname |-> "", new |-> 0,
               h |-> 0, ret |-> Returned("") ]
Threads == { 1, 2 }

Init ==
    /\ phase = "new"
    /\ __prefix__ = None
    /\ _pvs = <<>>
    /\ factoryLog = <<>>
    /\ nIo = 0
    /\ lastIo = <<>>
    /\ call = NoCall
    /\ nCalls = 0
    /\ pc = [ t \in Threads |-> "idle" ]
    /\ frame = [ t \in Threads |-> IdleFrame ]

\* The environment answers only the calls that are made: epics.PV is called
\* when the full name is not cached, the PV object when epics.PV did not raise.
FactoryAnswers(attr) ==
    IF FullName(__prefix__, attr) \notin DOMAIN _pvs THEN FactoryOutcomes ELSE { Returned("PV") }
IoAnswers(attr, fout) ==
    IF FullName(__prefix__, attr) \notin DOMAIN _pvs /\ fout.kind = "raise"
    THEN { Returned("r1") } ELSE IoOutcomes

\* d = Device(prefix, attrs)
Construct ==
    /\ phase = "new"
    /\ \E pfx \in Prefixes, attrs \in AttrLists :
       \E fouts \in [ 1..(IF attrs = None THEN 0 ELSE Len(attrs[1])) -> FactoryOutcomes ] :
          LET r == __init__(pfx, attrs, fouts) IN
          /\ __prefix__' = pfx
          /\ _pvs' = r.pvs
          /\ factoryLog' = r.flog
          /\ phase' = IF r.ok THEN "ready" ELSE "failed"
          /\ call' = [ op |-> "__init__", attr |-> "", args |-> attrs, h |-> 0,
                       ret |-> IF r.ok THEN Returned("Device") ELSE Raised(r.err) ]
    /\ lastIo' = <<>>
    /\ UNCHANGED << nIo, nCalls, pc, frame >>

\* d.PV(attr)
CallPV ==
    /\ phase = "ready"
    /\ nCalls < MaxCalls
    /\ \E attr \in Attrs : \E fout \in FactoryAnswers(attr) :
          LET r == PV(_pvs, factoryLog, __prefix__, attr, fout) IN
          /\ _pvs' = r.pvs
          /\ factoryLog' = r.flog
          /\ call' = [ op |-> "PV", attr |-> attr, args |-> <<>>, h |-> r.h,
                       ret |-> IF r.ok THEN Returned("PV") ELSE Raised(r.err) ]
    /\ lastIo' = <<>>
    /\ nCalls' = nCalls + 1
    /\ UNCHANGED << phase, __prefix__, nIo, pc, frame >>

\* d.put(attr, value [, wait] [, timeout])
CallPut ==
    /\ phase = "ready"
    /\ nCalls < MaxCalls
    /\ \E attr \in Attrs, value \in Values, waitArg \in WaitArgs, timeoutArg \in TimeoutArgs :
       \E fout \in FactoryAnswers(attr) : \E iout \in IoAnswers(attr, fout) :
          LET r == put(_pvs, factoryLog, __prefix__, attr, value, waitArg, timeoutArg, fout, iout) IN
          /\ _pvs' = r.pvs
          /\ factoryLog' = r.flog
          /\ nIo' = nIo + Len(r.io)
          /\ lastIo' = r.io
          /\ call' = [ op |-> "put", attr |-> attr,
                       args |-> << value, waitArg, timeoutArg >>, h |-> r.h, ret |-> r.ret ]
    /\ nCalls' = nCalls + 1
    /\ UNCHANGED << phase, __prefix__, pc, frame >>

\* d.get(attr [, as_string])
CallGet ==
    /\ phase = "ready"
    /\ nCalls < MaxCalls
    /\ \E attr \in Attrs, asStringArg \in AsStringArgs :
       \E fout \in FactoryAnswers(attr) : \E iout \in IoAnswers(attr, fout) :
          LET r == get(_pvs, factoryLog, __prefix__, attr, asStringArg, fout, iout) IN
          /\ _pvs' = r.pvs
          /\ factoryLog' = r.flog
          /\ nIo' = nIo + Len(r.io)
          /\ lastIo' = r.io
          /\ call' = [ op |-> "get", attr |-> attr,
                       args |-> << asStringArg >>, h |-> r.h, ret |-> r.ret ]
    /\ nCalls' = nCalls + 1
    /\ UNCHANGED << phase, __prefix__, pc, frame >>

Next == Construct \/ CallPV \/ CallPut \/ CallGet

Spec == Init /\ [][Next]_vars

\* ----------------------------------------------------- the concurrent run
\* Two threads call PV, put and get on one Device that its constructor has
\* built.  Python runs one bytecode at a time: the membership test of line
\* 61, the call of epics.PV and the store of line 62, the lookup of line 63
\* and the call on the PV object are separate steps, and another thread may
\* run between any two of them.
InitMT ==
    /\ \E pfx \in Prefixes, attrs \in AttrLists :
          LET n == IF attrs = None THEN 0 ELSE Len(attrs[1])
              r == __init__(pfx, attrs, [ i \in 1..n |-> Returned("PV") ])
          IN  /\ __prefix__ = pfx
              /\ _pvs = r.pvs
              /\ factoryLog = r.flog
              /\ call = [ op |-> "__init__", attr |-> "", args |-> attrs, h |-> 0,
                          ret |-> Returned("Device") ]
    /\ phase = "ready"
    /\ nIo = 0
    /\ lastIo = <<>>
    /\ nCalls = 0
    /\ pc = [ t \in Threads |-> "idle" ]
    /\ frame = [ t \in Threads |-> IdleFrame ]

\* the threads' calls leave the keyword arguments to their defaults
CallArgs(op) ==
    CASE op = "PV"  -> { <<>> }
      [] op = "put" -> { << v, None, None >> : v \in Values }
      [] op = "get" -> { << None >> }

\* a thread calls PV, put or get; lines 58-60 compute pvname
Enter(t) ==
    /\ pc[t] = "idle"
    /\ nCalls < MaxMTCalls
    /\ \E op \in { "PV", "put", "get" }, attr \in Attrs : \E args \in CallArgs(op) :
          frame' = [ frame EXCEPT ![t] =
                       [ op |-> op, attr |-> attr, args |-> args,
                         pvname |-> FullName(__prefix__, attr),
                         new |-> 0, h |-> 0, ret |-> Returned("") ] ]
    /\ pc' = [ pc EXCEPT ![t] = "test" ]
    /\ nCalls' = nCalls + 1
    /\ UNCHANGED << phase, __prefix__, _pvs, factoryLog, nIo, lastIo, call >>

\* line 61: if pvname not in self._pvs
Test(t) ==
    /\ pc[t] = "test"
    /\ pc' = [ pc EXCEPT ![t] = IF frame[t].pvname \notin DOMAIN _pvs THEN "create" ELSE "return" ]
    /\ UNCHANGED << phase, __prefix__, _pvs, factoryLog, nIo, lastIo, call, nCalls, frame >>

\* line 62, right-hand side: epics.PV(pvname)
Create(t) ==
    /\ pc[t] = "create"
    /\ \E fout \in FactoryOutcomes :
          IF fout.kind = "ok"
          THEN LET h == NewHandle(factoryLog) IN
               /\ factoryLog' = Append(factoryLog, FactoryCall(frame[t].pvname, h))
               /\ frame' = [ frame EXCEPT ![t].new = h ]
               /\ pc' = [ pc EXCEPT ![t] = "store" ]
          ELSE /\ factoryLog' = Append(factoryLog, FactoryRaise(frame[t].pvname, fout.val))
               /\ frame' = [ frame EXCEPT ![t].ret = Raised(fout.val) ]
               /\ pc' = [ pc EXCEPT ![t] = "idle" ]
    /\ UNCHANGED << phase, __prefix__, _pvs, nIo, lastIo, call, nCalls >>

\* mutant: the first handle stored is kept, self._pvs.setdefault(pvname, <the new object>)
StoreIfAbsent(t) ==
    /\ pc[t] = "store"
    /\ _pvs' = IF frame[t].pvname \in DOMAIN _pvs THEN _pvs
               ELSE SetItem(_pvs, frame[t].pvname, frame[t].new)
    /\ pc' = [ pc EXCEPT ![t] = "return" ]
    /\ UNCHANGED << phase, __prefix__, factoryLog, nIo, lastIo, call, nCalls, frame >>

\* line 62, the assignment: self._pvs[pvname] = <the new object>
Store(t) ==
    /\ pc[t] = "store"
    /\ _pvs' = SetItem(_pvs, frame[t].pvname, frame[t].new)
    /\ pc' = [ pc EXCEPT ![t] = "return" ]
    /\ UNCHANGED << phase, __prefix__, factoryLog, nIo, lastIo, call, nCalls, frame >>

\* line 63: return self._pvs[pvname]; put and get go on to call the PV object
Return(t) ==
    /\ pc[t] = "return"
    /\ frame' = [ frame EXCEPT ![t].h = _pvs[frame[t].pvname],
                               ![t].ret = IF frame[t].op = "PV" THEN Returned("PV") ELSE @ ]
    /\ pc' = [ pc EXCEPT ![t] = IF frame[t].op = "PV" THEN "idle" ELSE "io" ]
    /\ UNCHANGED << phase, __prefix__, _pvs, factoryLog, nIo, lastIo, call, nCalls >>

\* lines 69 and 74: the call on the PV object frame[t].h, with the arguments
\* of frame[t]; its result is returned
Io(t) ==
    /\ pc[t] = "io"
    /\ \E iout \in IoOutcomes : frame' = [ frame EXCEPT ![t].ret = iout ]
    /\ nIo' = nIo + 1
    /\ pc' = [ pc EXCEPT ![t] = "idle" ]
    /\ UNCHANGED << phase, __prefix__, _pvs, factoryLog, lastIo, call, nCalls >>

NextMT == \E t \in Threads : Enter(t) \/ Test(t) \/ Create(t) \/ Store(t) \/ Return(t) \/ Io(t)

SpecMT == InitMT /\ [][NextMT]_vars

\* ------------------------------------------------------------- the claims
\* The full name the specification gives an attribute: prefix + attr when a
\* prefix is set, attr alone when it is absent.
SpecName(pfx, attr) == IF pfx = None THEN attr ELSE pfx[1] \o attr

IsCall(c) == c.op \in { "PV", "put", "get" }
NoFactoryFailure == \A i \in 1..Len(factoryLog) : factoryLog[i].ok
Requests(flog, n) == { i \in 1..Len(flog) : flog[i].name = n }
Creations(flog, n) == { i \in 1..Len(flog) : flog[i].name = n /\ flog[i].ok }
\* the handle the first successful factory call for n built
FirstHandle(flog, n) ==
    flog[CHOOSE i \in Creations(flog, n) : \A j \in Creations(flog, n) : i <= j].h
\* the factory calls a step added
Added == { i \in 1..Len(factoryLog') : i > Len(factoryLog) }

\* C1: in a single-threaded run in which the factory never fails, the factory
\* has been called exactly once for each full name requested (by the
\* constructor's preload or by the last PV/get/put call, no name twice), and
\* the call's handle, the one PV returns and get/put read or write, is the
\* one the first factory call for that name built.
C1_CreatedOnceAndReused ==
    (phase = "ready" /\ NoFactoryFailure) =>
        /\ \A i, j \in 1..Len(factoryLog) :
              factoryLog[i].name = factoryLog[j].name => i = j
        /\ (call.op = "__init__" /\ call.args # None) =>
              \A k \in 1..Len(call.args[1]) :
                 Cardinality(Requests(factoryLog, SpecName(__prefix__, call.args[1][k]))) = 1
        /\ IsCall(call) =>
              LET n == SpecName(__prefix__, call.attr) IN
              /\ Cardinality(Requests(factoryLog, n)) = 1
              /\ call.h = FirstHandle(factoryLog, n)
              /\ call.op \in { "put", "get" } =>
                    /\ Len(lastIo) = 1
                    /\ lastIo[1].h = FirstHandle(factoryLog, n)

\* a second get of an attribute a first call created: no new factory call
C1_Witness ==
    /\ phase = "ready" /\ NoFactoryFailure
    /\ nCalls = 2 /\ nIo = 2
    /\ call.op = "get" /\ call.attr = "mca1"
    /\ Len(factoryLog) = 1
    /\ lastIo[1].h = factoryLog[1].h

\* C2: a PV/get/put call on attr asks the factory for no name but prefix+attr
\* (attr alone when the prefix is None), and the handle the factory builds is
\* stored under that same name and is the one the call uses.
C2_RequestsFullName ==
    [][ IsCall(call') =>
          LET n == SpecName(__prefix__, call'.attr) IN
          /\ \A i \in Added : factoryLog'[i].name = n
          /\ \A i \in Added : factoryLog'[i].ok =>
                /\ DOMAIN _pvs' = (DOMAIN _pvs) \cup { n }
                /\ _pvs'[n] = factoryLog'[i].h
          /\ call'.h # 0 => (n \in DOMAIN _pvs' /\ _pvs'[n] = call'.h)
          /\ (n \notin DOMAIN _pvs) => Added # {} ]_vars

C2_Witness ==
    /\ __prefix__ = Some("13IDC:str:")
    /\ call.op = "PV" /\ call.attr = "mca1" /\ call.h # 0
    /\ Len(factoryLog) = 1
    /\ factoryLog[1].name = "13IDC:str:mca1"
    /\ DOMAIN _pvs = { "13IDC:str:mca1" }

\* C3: right after Device(prefix, attrs) returned, the dictionary holds a
\* handle for exactly the full names of attrs, each built by one factory call
\* (a name listed twice is built once); with attrs absent or empty the
\* constructor raises nothing, calls the factory never and leaves the
\* dictionary empty.
C3_PreloadedAfterInit ==
    call.op = "__init__" =>
        /\ (call.args = None \/ call.args = Some(<<>>)) =>
              (phase = "ready" /\ _pvs = <<>> /\ factoryLog = <<>>)
        /\ (phase = "ready" /\ call.args # None) =>
              LET attrs == call.args[1]
                  names == { SpecName(__prefix__, attrs[k]) : k \in 1..Len(attrs) }
              IN  /\ DOMAIN _pvs = names
                  /\ Len(factoryLog) = Cardinality(names)
                  /\ \A n \in names :
                        /\ Cardinality(Requests(factoryLog, n)) = 1
                        /\ \A i \in Requests(factoryLog, n) :
                              factoryLog[i].ok /\ _pvs[n] = factoryLog[i].h

C3_Witness ==
    /\ phase = "ready" /\ nCalls = 0
    /\ __prefix__ = Some("13IDC:str:")
    /\ call.op = "__init__" /\ call.args = Some(<< "EraseStart", "mca1" >>)
    /\ DOMAIN _pvs = { "13IDC:str:EraseStart", "13IDC:str:mca1" }
    /\ Len(factoryLog) = 2

\* C4: a put whose handle was resolved makes exactly one call on PV objects:
\* a put on that handle with the caller's value, wait (False if omitted) and
\* timeout (10.0 if omitted); the caller gets what that put returned.
C4_PutForwards ==
    [][ (call'.op = "put" /\ call'.h # 0) =>
          /\ nIo' = nIo + 1
          /\ Len(lastIo') = 1
          /\ lastIo'[1].op = "put"
          /\ lastIo'[1].h = _pvs'[SpecName(__prefix__, call'.attr)]
          /\ lastIo'[1].args =
                [ value   |-> call'.args[1],
                  wait    |-> IF call'.args[2] = None THEN FALSE ELSE call'.args[2][1],
                  timeout |-> IF call'.args[3] = None THEN DefaultTimeout ELSE call'.args[3][1] ]
          /\ call'.ret = lastIo'[1].out ]_vars

C4_Witness ==
    /\ call.op = "put" /\ call.attr = "EraseStart"
    /\ call.args = << 1, Some(TRUE), Some(5) >>
    /\ Len(lastIo) = 1
    /\ lastIo[1].args = [ value |-> 1, wait |-> TRUE, timeout |-> 5 ]
    /\ call.ret = Returned("r1")

\* C5: a get whose handle was resolved makes exactly one call on PV objects:
\* a get on that handle with the caller's as_string (False if omitted); the
\* caller gets what that get returned.
C5_GetForwards ==
    [][ (call'.op = "get" /\ call'.h # 0) =>
          /\ nIo' = nIo + 1
          /\ Len(lastIo') = 1
          /\ lastIo'[1].op = "get"
          /\ lastIo'[1].h = _pvs'[SpecName(__prefix__, call'.attr)]
          /\ lastIo'[1].args =
                [ as_string |-> IF call'.args[1] = None THEN FALSE ELSE call'.args[1][1] ]
          /\ call'.ret = lastIo'[1].out ]_vars

C5_Witness ==
    /\ call.op = "get" /\ call.attr = "mca1"
    /\ call.args = << Some(TRUE) >>
    /\ Len(lastIo) = 1
    /\ lastIo[1].args = [ as_string |-> TRUE ]
    /\ call.ret = Returned("r2")

\* C6: a get or put calls the factory at most once and a PV object at most
\* once; when the factory raises, no PV object is called and the caller gets
\* that exception; when the read or write raises, the caller gets that
\* exception; the wrapper raises nothing the library did not raise.
C6_FailuresPropagateOnce ==
    [][ call'.op \in { "put", "get" } =>
          /\ Cardinality(Added) <= 1
          /\ nIo' - nIo <= 1
          /\ Len(lastIo') = nIo' - nIo
          /\ \A i \in Added : ~factoryLog'[i].ok =>
                (call'.ret = Raised(factoryLog'[i].err) /\ lastIo' = <<>>)
          /\ \A k \in 1..Len(lastIo') : lastIo'[k].out.kind = "raise" =>
                call'.ret = lastIo'[k].out
          /\ call'.ret.kind = "raise" =>
                \/ \E i \in Added : ~factoryLog'[i].ok
                \/ \E k \in 1..Len(lastIo') : lastIo'[k].out.kind = "raise" ]_vars

\* the read of a newly created handle raises
C6_Witness ==
    /\ call.op = "get" /\ call.attr = "mca1"
    /\ nCalls = 1 /\ nIo = 1
    /\ Len(factoryLog) = 1 /\ factoryLog[1].ok
    /\ Len(lastIo) = 1
    /\ lastIo[1].out = Raised("TimeoutError")
    /\ call.ret = Raised("TimeoutError")

\* C7: a PV/get/put call keeps every entry of the dictionary with its handle
\* and adds at most the entry of its own full name; on a cached name it calls
\* the factory for nothing and changes nothing, on a name not cached it calls
\* the factory once, for that name.
C7_LazyAndRetained ==
    [][ IsCall(call') =>
          LET n == SpecName(__prefix__, call'.attr) IN
          /\ \A m \in DOMAIN _pvs : m \in DOMAIN _pvs' /\ _pvs'[m] = _pvs[m]
          /\ (DOMAIN _pvs') \subseteq ((DOMAIN _pvs) \cup { n })
          /\ \A i \in Added : factoryLog'[i].name = n
          /\ (n \in DOMAIN _pvs) => (_pvs' = _pvs /\ factoryLog' = factoryLog)
          /\ (n \notin DOMAIN _pvs) => Cardinality(Added) = 1
          /\ (n \notin DOMAIN _pvs /\ call'.h # 0) => n \in DOMAIN _pvs' ]_vars

\* Device("13IDC:str:", attrs=["EraseStart"]), then get("mca1") creates mca1's handle
C7_Witness ==
    /\ __prefix__ = Some("13IDC:str:")
    /\ nCalls = 1
    /\ call.op = "get" /\ call.attr = "mca1"
    /\ Len(factoryLog) = 2
    /\ factoryLog[1] = FactoryCall("13IDC:str:EraseStart", 1)
    /\ factoryLog[2] = FactoryCall("13IDC:str:mca1", 2)
    /\ _pvs = SetItem(SetItem(<<>>, "13IDC:str:EraseStart", 1), "13IDC:str:mca1", 2)

\* C8: with the empty string as prefix, as with no prefix, the full name of
\* an attribute is the attribute: the factory is asked for it, the handle is
\* cached under it, and PV does on every reachable dictionary what it does
\* with the prefix None.
C8_EmptyPrefixIsNoPrefix ==
    (__prefix__ \in { None, Some("") }) =>
        /\ \A i \in 1..Len(factoryLog) : factoryLog[i].name \in Attrs
        /\ (DOMAIN _pvs) \subseteq Attrs
        /\ (IsCall(call) /\ call.h # 0) =>
              (call.attr \in DOMAIN _pvs /\ _pvs[call.attr] = call.h)
        /\ (call.op = "__init__" /\ phase = "ready" /\ call.args # None) =>
              DOMAIN _pvs = { call.args[1][k] : k \in 1..Len(call.args[1]) }
        /\ \A attr \in Attrs, fout \in FactoryOutcomes :
              PV(_pvs, factoryLog, Some(""), attr, fout) = PV(_pvs, factoryLog, None, attr, fout)

C8_Witness ==
    /\ __prefix__ = Some("")
    /\ call.op = "PV" /\ call.attr = "mca1" /\ call.h = 1
    /\ factoryLog = << FactoryCall("mca1", 1) >>
    /\ DOMAIN _pvs = { "mca1" }

\* C9: a PV/get/put call in which the factory raises leaves the dictionary
\* as it was, with no entry for the name, and a call on a name that has no
\* entry calls the factory (again); a constructor that raises has created
\* the names listed before the failing one and no other.
C9_FailedCreationNotCached ==
    [][ /\ IsCall(call') =>
              LET n == SpecName(__prefix__, call'.attr) IN
              /\ (\E i \in Added : ~factoryLog'[i].ok) =>
                    (_pvs' = _pvs /\ n \notin DOMAIN _pvs')
              /\ (n \notin DOMAIN _pvs) =>
                    (Added # {} /\ \A i \in Added : factoryLog'[i].name = n)
        /\ (call'.op = "__init__" /\ phase' = "failed") =>
              LET attrs == call'.args[1]
                  len   == Len(factoryLog')
                  last  == factoryLog'[len]
                  k     == CHOOSE k \in 1..Len(attrs) :
                              /\ SpecName(__prefix__', attrs[k]) = last.name
                              /\ \A j \in 1..(k - 1) : SpecName(__prefix__', attrs[j]) # last.name
                  early == { SpecName(__prefix__', attrs[j]) : j \in 1..(k - 1) }
              IN  /\ ~last.ok
                  /\ call'.ret = Raised(last.err)
                  /\ \A i \in 1..(len - 1) : factoryLog'[i].ok
                  /\ { factoryLog'[i].name : i \in 1..(len - 1) } = early
                  /\ len = Cardinality(early) + 1
                  /\ DOMAIN _pvs' = early ]_vars

\* the factory raised for a name, and the next call for it asked the factory again
C9_Witness ==
    /\ nCalls = 2
    /\ Len(factoryLog) = 2
    /\ ~factoryLog[1].ok /\ factoryLog[2].ok
    /\ factoryLog[1].name = factoryLog[2].name
    /\ IsCall(call) /\ call.h = factoryLog[2].h
    /\ _pvs = SetItem(<<>>, factoryLog[2].name, factoryLog[2].h)

\* C10: with two threads, the test of line 61 looks at the dictionary alone,
\* whatever the other thread is doing, and the store of line 62 puts the
\* thread's new handle under the name whether or not a handle is there: the
\* dictionary keeps one handle per name, the one stored last.
C10_UnlockedTestAndStore ==
    [][ \A t \in Threads :
          /\ (pc[t] = "test" /\ pc'[t] # "test") =>
                pc'[t] = IF frame[t].pvname \in DOMAIN _pvs THEN "return" ELSE "create"
          /\ (pc[t] = "store" /\ pc'[t] # "store") =>
                /\ DOMAIN _pvs' = (DOMAIN _pvs) \cup { frame[t].pvname }
                /\ _pvs'[frame[t].pvname] = frame[t].new
                /\ \A m \in (DOMAIN _pvs) \ { frame[t].pvname } : _pvs'[m] = _pvs[m] ]_vars

\* both threads saw the name absent: the factory built two handles for it,
\* each call returned its own, and the dictionary holds the one stored last
\* (here the one built first)
C10_Witness ==
    /\ pc[1] = "idle" /\ pc[2] = "idle"
    /\ frame[1].pvname = frame[2].pvname
    /\ frame[1].h # 0 /\ frame[2].h # 0
    /\ frame[1].h # frame[2].h
    /\ Cardinality(Creations(factoryLog, frame[1].pvname)) = 2
    /\ Cardinality(Requests(factoryLog, frame[1].pvname)) = 2
    /\ _pvs[frame[1].pvname] = FirstHandle(factoryLog, frame[1].pvname)

====
